---- MODULE Spec2Model ----
(***************************************************************************)
(* System monitor: the collector of main.py (sample, insert_log,           *)
(* check_alerts, sleep; five ticks, then a summary) writing the SQLite     *)
(* store log.db, and the Streamlit dashboard of app.py reading it.         *)
(*                                                                         *)
(* Percentages are integers (per cent).  A ping time is a decimal number:  *)
(* its whole part and the digits of its fraction.                          *)
(***************************************************************************)
EXTENDS Integers, Sequences, FiniteSets, TLC

VARIABLES
    tables,            \* names of the tables that exist in log.db
    system_log,        \* rows of system_log, in insertion order
    alerts_log,        \* rows of alerts_log, in insertion order
    pc,                \* position of the collector script
    i,                 \* loop variable of the collection loop
    row,               \* the sample of the current tick
    alerts_triggered,  \* alerts of check_alerts not yet inserted
    now,               \* wall clock, in ticks of the collector
    sleeps,            \* number of time.sleep(10) calls made
    stdout,            \* summary blocks printed after the loop
    exc,               \* exception that ended the collector, or "none"
    ping,              \* the ping subprocess of the probe: its run and result
    dash,              \* the dashboard script run (one render of main())
    cache,             \* st.cache_data entries
    renders            \* number of dashboard script runs started

vars == <<tables, system_log, alerts_log, pc, i, row, alerts_triggered, now,
          sleeps, stdout, exc, ping, dash, cache, renders>>

collectorVars == <<pc, i, row, alerts_triggered, now, sleeps, stdout, exc>>
storeVars == <<tables, system_log, alerts_log>>
dashVars == <<dash, cache, renders>>

----------------------------------------------------------------------------
(* Bounds and program constants *)

MaxOutLen == 5          \* symbols in a ping output
MaxRenders == 2         \* dashboard script runs in a behaviour
MaxWatch == 1           \* the dashboard is opened until this many samples are taken

CPU_THRESHOLD == 80
MEMORY_THRESHOLD == 85
DISK_THRESHOLD == 90
Iterations == 5         \* for i in range(5)
LastIndex == 4          \* if i < 4: sleep
LastEntriesLimit == 5   \* show_last_entries(limit=5)
AlertsShowLimit == 10   \* show_alerts_log(limit=10)
DashAlertsLimit == 20   \* ... ORDER BY id DESC LIMIT 20
SliderDefault == 20     \* st.sidebar.slider(..., 5, 100, 20)

----------------------------------------------------------------------------
(* Generic helpers *)

Reverse(s) == [k \in 1..Len(s) |-> s[Len(s) + 1 - k]]

Head_n(s, n) == SubSeq(s, 1, IF n < Len(s) THEN n ELSE Len(s))

Min(a, b) == IF a < b THEN a ELSE b

MaxId(t) == IF t = <<>> THEN 0
            ELSE CHOOSE m \in {t[k].id : k \in 1..Len(t)} :
                    \A k \in 1..Len(t) : t[k].id <= m

\* ORDER BY id DESC (id is the primary key: no two rows share one): the
\* k-th row is the one with k - 1 rows of larger id
OrderByIdDesc(t) ==
    [k \in 1..Len(t) |->
        CHOOSE r \in {t[j] : j \in 1..Len(t)} :
            Cardinality({j \in 1..Len(t) : t[j].id > r.id}) = k - 1]

\* ORDER BY id (ascending), as sort_values('id')
OrderById(t) == Reverse(OrderByIdDesc(t))

----------------------------------------------------------------------------
(* The ping probe: ping_host and parse_ping_time.                          *)
(* A ping output is a sequence of symbols: the markers, a digit, the dot,  *)
(* the unit, a blank and the line break.                                   *)

Symbols == {"time=", "TIME<", "1", ".", "ms", " ", "\n"}

Lower(sym) == IF sym = "TIME<" THEN "time<" ELSE sym

LowerLine(line) == [k \in 1..Len(line) |-> Lower(line[k])]

\* str.splitlines(): break at every "\n", no empty last line
RECURSIVE splitlines(_)
splitlines(out) ==
    IF out = <<>> THEN <<>>
    ELSE IF \E k \in 1..Len(out) : out[k] = "\n"
         THEN LET k == CHOOSE k \in 1..Len(out) :
                          out[k] = "\n" /\ \A j \in 1..(k - 1) : out[j] # "\n"
              IN <<SubSeq(out, 1, k - 1)>> \o splitlines(SubSeq(out, k + 1, Len(out)))
         ELSE <<out>>

Contains(line, marker) == \E k \in 1..Len(line) : line[k] = marker

\* line.split(marker)[1]: the text between the first occurrence of the
\* marker and the next one (or the end of the line)
SplitPart1(line, marker) ==
    LET f == CHOOSE k \in 1..Len(line) :
                 line[k] = marker /\ \A j \in 1..(k - 1) : line[j] # marker
        rest == SubSeq(line, f + 1, Len(line))
    IN IF Contains(rest, marker)
       THEN LET g == CHOOSE k \in 1..Len(rest) :
                         rest[k] = marker /\ \A j \in 1..(k - 1) : rest[j] # marker
            IN SubSeq(rest, 1, g - 1)
       ELSE rest

\* str.split()[0]: the first blank-delimited token; <<>> stands for the
\* IndexError of an empty split
RECURSIVE FirstToken(_)
FirstToken(s) ==
    IF s = <<>> THEN <<>>
    ELSE IF Head(s) = " " THEN FirstToken(Tail(s))
    ELSE LET stop == IF \E k \in 1..Len(s) : s[k] = " "
                     THEN (CHOOSE k \in 1..Len(s) :
                              s[k] = " " /\ \A j \in 1..(k - 1) : s[j] # " ") - 1
                     ELSE Len(s)
         IN SubSeq(s, 1, stop)

\* token.replace("ms", "").strip()
StripUnit(tok) == SelectSeq(tok, LAMBDA sym : sym # "ms")

Count(s, sym) == Cardinality({k \in 1..Len(s) : s[k] = sym})

\* float(time_str) succeeds
IsFloat(s) ==
    /\ \A k \in 1..Len(s) : s[k] \in {"1", "."}
    /\ Count(s, ".") <= 1
    /\ Count(s, "1") >= 1

RECURSIVE DigitsValue(_)
DigitsValue(s) == IF s = <<>> THEN 0
                  ELSE 10 * DigitsValue(SubSeq(s, 1, Len(s) - 1)) + 1

\* float(time_str): the whole part and the digits of the fraction
Float(s) ==
    IF Contains(s, ".")
    THEN LET d == CHOOSE k \in 1..Len(s) : s[k] = "."
         IN [whole |-> DigitsValue(SubSeq(s, 1, d - 1)),
             frac |-> SubSeq(s, d + 1, Len(s))]
    ELSE [whole |-> DigitsValue(s), frac |-> <<>>]

Number(n) == [whole |-> n, frac |-> <<>>]

NoTime == Number(-1)

\* x > 0 (no digit of a fraction is 0 here)
Positive(x) == x.whole > 0 \/ (x.whole = 0 /\ x.frac # <<>>)

NoParse == [ok |-> FALSE, v |-> Number(0)]

\* the body of the two branches of parse_ping_time for one line: the parsed
\* time, or NoParse when the except clause passes
ParseAfter(line, marker) ==
    LET tok == FirstToken(SplitPart1(line, marker))
        time_str == StripUnit(tok)
    IN IF tok = <<>> THEN NoParse                       \* IndexError
       ELSE IF IsFloat(time_str) THEN [ok |-> TRUE, v |-> Float(time_str)]
       ELSE NoParse                                     \* ValueError

ParseLine(line) ==
    LET l == LowerLine(line)
    IN IF Contains(l, "time=") THEN ParseAfter(l, "time=")
       ELSE IF Contains(l, "time<") THEN ParseAfter(l, "time<")
       ELSE NoParse

RECURSIVE ParseLines(_)
ParseLines(lines) ==
    IF lines = <<>> THEN NoTime
    ELSE IF ParseLine(Head(lines)).ok THEN ParseLine(Head(lines)).v
    ELSE ParseLines(Tail(lines))

parse_ping_time(output) == ParseLines(splitlines(output))

\* ping_host reporting UP whenever it swallows the subprocess error
ping_host_up(run) ==
    IF run.failed THEN <<"UP", NoTime>>
    ELSE <<"UP", parse_ping_time(run.output)>>

\* run: [failed |-> the subprocess raised or exited non-zero, output |-> ...]
ping_host(run) ==
    IF run.failed THEN <<"DOWN", NoTime>>
    ELSE <<"UP", parse_ping_time(run.output)>>

----------------------------------------------------------------------------
(* The store: log.db *)

AllTables == {"system_log", "alerts_log"}

\* INSERT INTO system_log ...: id is AUTOINCREMENT
LogRow(t, data) ==
    [id |-> MaxId(t) + 1, timestamp |-> data.timestamp, cpu |-> data.cpu,
     memory |-> data.memory, disk |-> data.disk,
     ping_status |-> data.ping_status, ping_ms |-> data.ping_ms]

AlertRow(t, timestamp, a) ==
    [id |-> MaxId(t) + 1, timestamp |-> timestamp, alert_type |-> a.alert_type,
     value |-> a.value, threshold |-> a.threshold, message |-> a.message]

----------------------------------------------------------------------------
(* The collector: main.py *)

NoRow == [timestamp |-> 0, cpu |-> 0, memory |-> 0, disk |-> 0,
          ping_status |-> "", ping_ms |-> Number(0)]

IdlePing == [run |-> [failed |-> TRUE, output |-> <<>>], done |-> FALSE,
             result |-> <<"", Number(0)>>]

\* check_alerts comparing with >= instead of >
AlertsFor_meet(data) ==
    (IF data.cpu >= CPU_THRESHOLD
     THEN <<[alert_type |-> "CPU", value |-> data.cpu, threshold |-> CPU_THRESHOLD,
             message |-> <<"High CPU usage", data.cpu>>]>>
     ELSE <<>>)
    \o (IF data.memory >= MEMORY_THRESHOLD
        THEN <<[alert_type |-> "MEMORY", value |-> data.memory,
                threshold |-> MEMORY_THRESHOLD,
                message |-> <<"High Memory usage", data.memory>>]>>
        ELSE <<>>)
    \o (IF data.disk >= DISK_THRESHOLD
        THEN <<[alert_type |-> "DISK", value |-> data.disk, threshold |-> DISK_THRESHOLD,
                message |-> <<"Low Disk Space", data.disk>>]>>
        ELSE <<>>)

\* check_alerts testing the disk before the CPU and the memory
AlertsFor_diskfirst(data) ==
    (IF data.disk > DISK_THRESHOLD
     THEN <<[alert_type |-> "DISK", value |-> data.disk, threshold |-> DISK_THRESHOLD,
             message |-> <<"Low Disk Space", data.disk>>]>>
     ELSE <<>>)
    \o (IF data.cpu > CPU_THRESHOLD
        THEN <<[alert_type |-> "CPU", value |-> data.cpu, threshold |-> CPU_THRESHOLD,
                message |-> <<"High CPU usage", data.cpu>>]>>
        ELSE <<>>)
    \o (IF data.memory > MEMORY_THRESHOLD
        THEN <<[alert_type |-> "MEMORY", value |-> data.memory,
                threshold |-> MEMORY_THRESHOLD,
                message |-> <<"High Memory usage", data.memory>>]>>
        ELSE <<>>)

\* the alerts check_alerts collects for a sample, in the order it appends them
AlertsFor(data) ==
    (IF data.cpu > CPU_THRESHOLD
     THEN <<[alert_type |-> "CPU", value |-> data.cpu, threshold |-> CPU_THRESHOLD,
             message |-> <<"High CPU usage", data.cpu>>]>>
     ELSE <<>>)
    \o (IF data.memory > MEMORY_THRESHOLD
        THEN <<[alert_type |-> "MEMORY", value |-> data.memory,
                threshold |-> MEMORY_THRESHOLD,
                message |-> <<"High Memory usage", data.memory>>]>>
        ELSE <<>>)
    \o (IF data.disk > DISK_THRESHOLD
        THEN <<[alert_type |-> "DISK", value |-> data.disk, threshold |-> DISK_THRESHOLD,
                message |-> <<"Low Disk Space", data.disk>>]>>
        ELSE <<>>)

\* CREATE TABLE IF NOT EXISTS system_log
InitDbSystemLog ==
    /\ pc = "init_db"
    /\ tables' = tables \cup {"system_log"}
    /\ pc' = "init_db_alerts"
    /\ UNCHANGED <<system_log, alerts_log, i, row, alerts_triggered, now, sleeps,
                   stdout, exc, ping, dashVars>>

\* CREATE TABLE IF NOT EXISTS alerts_log
InitDbAlertsLog ==
    /\ pc = "init_db_alerts"
    /\ tables' = tables \cup {"alerts_log"}
    /\ pc' = "get_system_info"
    /\ UNCHANGED <<system_log, alerts_log, i, row, alerts_triggered, now, sleeps,
                   stdout, exc, ping, dashVars>>

\* row = get_system_info(): the host's readings and the run of the ping
\* subprocess are one of Samples
GetSystemInfo(Samples) ==
    /\ pc = "get_system_info"
    /\ i < Iterations
    /\ \E smp \in Samples :
          LET res == ping_host(smp.run)
          IN /\ ping' = [run |-> smp.run, done |-> TRUE, result |-> res]
             /\ row' = [timestamp |-> now + 1, cpu |-> smp.cpu, memory |-> smp.memory,
                        disk |-> smp.disk, ping_status |-> res[1], ping_ms |-> res[2]]
    /\ now' = now + 1
    /\ pc' = "insert_log"
    /\ UNCHANGED <<storeVars, i, alerts_triggered, sleeps, stdout, exc, dashVars>>

\* insert_log writing REPLACE INTO ... with the fixed key 1
InsertLog_replace ==
    /\ pc = "insert_log"
    /\ system_log' = IF system_log = <<>>
                     THEN <<LogRow(<<>>, row)>>
                     ELSE [system_log EXCEPT ![1] = LogRow(<<>>, row)]
    /\ pc' = "check_alerts"
    /\ UNCHANGED <<tables, alerts_log, i, row, alerts_triggered, now, sleeps, stdout,
                   exc, ping, dashVars>>

\* insert_log without conn.commit(): the row is lost when the connection closes
InsertLog_nocommit ==
    /\ pc = "insert_log"
    /\ pc' = "check_alerts"
    /\ UNCHANGED <<storeVars, i, row, alerts_triggered, now, sleeps, stdout,
                   exc, ping, dashVars>>

\* insert_log(row): INSERT and commit
InsertLog ==
    /\ pc = "insert_log"
    /\ system_log' = Append(system_log, LogRow(system_log, row))
    /\ pc' = "check_alerts"
    /\ UNCHANGED <<tables, alerts_log, i, row, alerts_triggered, now, sleeps, stdout,
                   exc, ping, dashVars>>

\* a store call raises inside a per-tick try/except: logged, the run goes on
StoreRaises_continue ==
    /\ exc' = "sqlite3.Error"
    /\ alerts_triggered' = <<>>
    /\ pc' = "insert_alert"
    /\ UNCHANGED <<storeVars, i, row, now, sleeps, stdout, ping, dashVars>>

\* a store call raises (locked database, disk full): nothing is committed
\* and the exception, which nothing catches, ends the script
StoreRaises ==
    /\ exc' = "sqlite3.Error"
    /\ pc' = "exit"
    /\ UNCHANGED <<storeVars, i, row, alerts_triggered, now, sleeps, stdout, ping,
                   dashVars>>

InsertLogFail ==
    /\ pc = "insert_log"
    /\ StoreRaises

\* check_alerts that keeps quiet about a metric it alerted on in the last tick
CheckAlerts_dedup ==
    /\ pc = "check_alerts"
    /\ alerts_triggered' =
          SelectSeq(AlertsFor(row),
                    LAMBDA a : ~\E k \in 1..Len(alerts_log) :
                                  /\ alerts_log[k].alert_type = a.alert_type
                                  /\ alerts_log[k].timestamp = row.timestamp - 1)
    /\ pc' = "insert_alert"
    /\ UNCHANGED <<storeVars, i, row, now, sleeps, stdout, exc, ping, dashVars>>

\* check_alerts(row), up to the loop that logs the alerts
CheckAlerts ==
    /\ pc = "check_alerts"
    /\ alerts_triggered' = AlertsFor(row)
    /\ pc' = "insert_alert"
    /\ UNCHANGED <<storeVars, i, row, now, sleeps, stdout, exc, ping, dashVars>>

\* one iteration of: for ... in alerts_triggered: insert_alert(...)
InsertAlert ==
    /\ pc = "insert_alert"
    /\ alerts_triggered # <<>>
    /\ alerts_log' = Append(alerts_log,
                            AlertRow(alerts_log, row.timestamp, Head(alerts_triggered)))
    /\ alerts_triggered' = Tail(alerts_triggered)
    /\ UNCHANGED <<tables, system_log, pc, i, row, now, sleeps, stdout, exc, ping,
                   dashVars>>

InsertAlertFail ==
    /\ pc = "insert_alert"
    /\ alerts_triggered # <<>>
    /\ StoreRaises

\* the loop body sleeping after every entry, the last one included
EndTick_sleepalways ==
    /\ pc = "insert_alert"
    /\ alerts_triggered = <<>>
    /\ pc' = "sleep" /\ i' = i
    /\ UNCHANGED <<storeVars, row, alerts_triggered, now, sleeps, stdout, exc, ping,
                   dashVars>>

\* check_alerts returns; if i < 4 the loop body goes on to sleep, otherwise
\* the iteration is over
EndTick ==
    /\ pc = "insert_alert"
    /\ alerts_triggered = <<>>
    /\ IF i < LastIndex
       THEN pc' = "sleep" /\ i' = i
       ELSE pc' = "get_system_info" /\ i' = i + 1
    /\ UNCHANGED <<storeVars, row, alerts_triggered, now, sleeps, stdout, exc, ping,
                   dashVars>>

\* time.sleep(10), then the next iteration
Sleep ==
    /\ pc = "sleep"
    /\ sleeps' = sleeps + 1
    /\ i' = i + 1
    /\ pc' = "get_system_info"
    /\ UNCHANGED <<storeVars, row, alerts_triggered, now, stdout, exc, ping, dashVars>>

\* range(5) is exhausted: the loop ends
LoopExit ==
    /\ pc = "get_system_info"
    /\ ~(i < Iterations)
    /\ pc' = "show_last_entries"
    /\ UNCHANGED <<storeVars, i, row, alerts_triggered, now, sleeps, stdout, exc, ping,
                   dashVars>>

\* show_last_entries(): the last 5 rows, printed oldest first
ShowLastEntries ==
    /\ pc = "show_last_entries"
    /\ stdout' = Append(stdout,
                        [block |-> "last_entries",
                         rows |-> Reverse(Head_n(OrderByIdDesc(system_log),
                                                 LastEntriesLimit))])
    /\ pc' = "show_alerts_log"
    /\ UNCHANGED <<storeVars, i, row, alerts_triggered, now, sleeps, exc, ping,
                   dashVars>>

\* show_alerts_log(): the last 10 alerts, oldest first, or "No alerts triggered!"
ShowAlertsLog ==
    /\ pc = "show_alerts_log"
    /\ stdout' = Append(stdout,
                        [block |-> "alerts",
                         rows |-> Reverse(Head_n(OrderByIdDesc(alerts_log),
                                                 AlertsShowLimit))])
    /\ pc' = "count_total_records"
    /\ UNCHANGED <<storeVars, i, row, alerts_triggered, now, sleeps, exc, ping,
                   dashVars>>

\* count_total_records()
CountTotalRecords ==
    /\ pc = "count_total_records"
    /\ stdout' = Append(stdout,
                        [block |-> "counts",
                         rows |-> <<Len(system_log), Len(alerts_log)>>])
    /\ pc' = "done"
    /\ UNCHANGED <<storeVars, i, row, alerts_triggered, now, sleeps, exc, ping,
                   dashVars>>

----------------------------------------------------------------------------
(* The dashboard: app.py.  One script run of main() is a sequence of reads *)
(* of the store, each through its own connection and its own cache entry.  *)

NoStats == [log_count |-> 0, alert_count |-> 0, latest_cpu |-> 0,
            latest_memory |-> 0, latest_disk |-> 0, latest_ping_status |-> "N/A",
            latest_ping_ms |-> Number(0)]

\* keys of st.cache_data: the function and the arguments it was called with
CacheKeys == {"get_statistics", "get_alerts_log", "get_system_logs(None)",
              "get_system_logs(UP)", "get_system_logs(DOWN)", "get_system_logs()"}

EmptyCache == [k \in CacheKeys |->
                 [present |-> FALSE,
                  value |-> IF k = "get_statistics" THEN NoStats ELSE <<>>]]

DashIdle == [pc |-> "idle", ping_filter |-> "All", num_records |-> SliderDefault,
             stats |-> NoStats, alerts_df |-> <<>>, df |-> <<>>, out |-> <<>>]

\* the argument main() passes: ping_filter if ping_filter != "All" else None
LogsKey(ping_filter) ==
    IF ping_filter = "All" THEN "get_system_logs(None)"
    ELSE IF ping_filter = "UP" THEN "get_system_logs(UP)"
    ELSE "get_system_logs(DOWN)"

\* no handler for the exception of the read: the script run dies with it
Caught_uncaught(d) == [d EXCEPT !.pc = "crashed"]

\* except Exception as e: st.error(...); st.info(...)
Caught(d) ==
    [d EXCEPT !.pc = "done",
              !.out = @ \o <<[block |-> "error"], [block |-> "info_run_logger"]>>]

\* the five st.metric of "Current System Status"
StatusBlock(stats) ==
    [block |-> "status",
     cpu |-> stats.latest_cpu, cpu_delta |-> stats.latest_cpu > CPU_THRESHOLD,
     memory |-> stats.latest_memory,
     memory_delta |-> stats.latest_memory > MEMORY_THRESHOLD,
     disk |-> stats.latest_disk, disk_delta |-> stats.latest_disk > DISK_THRESHOLD,
     ping_status |-> stats.latest_ping_status,
     ping_icon |-> IF stats.latest_ping_status = "UP" THEN "green" ELSE "red",
     ping_na |-> ~Positive(stats.latest_ping_ms),
     ping_ms |-> stats.latest_ping_ms]

\* the browser session: the dashboard is in use until MaxWatch samples are taken
Watching == now <= MaxWatch

\* the script run starts: the sidebar widgets give the filter and the number
\* of records (the slider is left at its default)
StartRender ==
    /\ Watching
    /\ dash.pc \in {"idle", "done"}
    /\ renders < MaxRenders
    /\ renders' = renders + 1
    /\ \E f \in {"All", "UP", "DOWN"}, n \in {SliderDefault} :
          dash' = [DashIdle EXCEPT !.pc = "get_statistics", !.ping_filter = f,
                                   !.num_records = n]
    /\ UNCHANGED <<storeVars, collectorVars, ping, cache>>

\* the Refresh button: st.cache_data.clear(), st.rerun()
RefreshData ==
    /\ Watching
    /\ dash.pc \in {"idle", "done"}
    /\ renders < MaxRenders
    /\ cache # EmptyCache
    /\ cache' = EmptyCache
    /\ dash' = DashIdle
    /\ UNCHANGED <<storeVars, collectorVars, ping, renders>>

\* stats = get_statistics(), answered from the cache
GetStatisticsCached ==
    /\ Watching
    /\ dash.pc = "get_statistics"
    /\ cache["get_statistics"].present
    /\ LET st == cache["get_statistics"].value
       IN dash' = [dash EXCEPT !.stats = st, !.pc = "get_alerts_log",
                               !.out = Append(@, StatusBlock(st))]
    /\ UNCHANGED <<storeVars, collectorVars, ping, cache, renders>>

\* get_statistics(), not cached or expired: SELECT COUNT(*) FROM system_log
GetStatisticsCountLogs ==
    /\ Watching
    /\ dash.pc = "get_statistics"
    /\ dash' = IF "system_log" \in tables
               THEN [dash EXCEPT !.stats.log_count = Len(system_log),
                                 !.pc = "stats_count_alerts"]
               ELSE Caught(dash)
    /\ UNCHANGED <<storeVars, collectorVars, ping, cache, renders>>

\* SELECT COUNT(*) FROM alerts_log
GetStatisticsCountAlerts ==
    /\ Watching
    /\ dash.pc = "stats_count_alerts"
    /\ dash' = IF "alerts_log" \in tables
               THEN [dash EXCEPT !.stats.alert_count = Len(alerts_log),
                                 !.pc = "stats_latest"]
               ELSE Caught(dash)
    /\ UNCHANGED <<storeVars, collectorVars, ping, cache, renders>>

\* the record get_statistics returns for the row `latest` (<<>> is None)
StatsWithLatest(stats, latest) ==
    IF latest # <<>>
    THEN [stats EXCEPT !.latest_cpu = latest[1].cpu,
                       !.latest_memory = latest[1].memory,
                       !.latest_disk = latest[1].disk,
                       !.latest_ping_status = latest[1].ping_status,
                       !.latest_ping_ms = latest[1].ping_ms]
    ELSE [stats EXCEPT !.latest_cpu = 0, !.latest_memory = 0, !.latest_disk = 0,
                       !.latest_ping_status = "N/A", !.latest_ping_ms = Number(0)]

\* SELECT ... FROM system_log ORDER BY id DESC LIMIT 1; the result is cached
\* and the status metrics are drawn
GetStatisticsLatest ==
    /\ Watching
    /\ dash.pc = "stats_latest"
    /\ LET st == StatsWithLatest(dash.stats, Head_n(OrderByIdDesc(system_log), 1))
       IN /\ dash' = [dash EXCEPT !.stats = st, !.pc = "get_alerts_log",
                                  !.out = Append(@, StatusBlock(st))]
          /\ cache' = [cache EXCEPT !["get_statistics"] =
                                       [present |-> TRUE, value |-> st]]
    /\ UNCHANGED <<storeVars, collectorVars, ping, renders>>

\* the "Recent Alerts" section for the frame alerts_df
AlertsBlock(stats, alerts_df) ==
    IF alerts_df # <<>>
    THEN [block |-> "alerts", total |-> stats.alert_count, rows |-> alerts_df]
    ELSE [block |-> "no_alerts", total |-> 0, rows |-> <<>>]

\* SELECT * FROM alerts_log ORDER BY id DESC LIMIT 20
get_alerts_log == Head_n(OrderByIdDesc(alerts_log), DashAlertsLimit)

GetAlertsLogCached ==
    /\ Watching
    /\ dash.pc = "get_alerts_log"
    /\ cache["get_alerts_log"].present
    /\ LET a == cache["get_alerts_log"].value
       IN dash' = [dash EXCEPT !.alerts_df = a, !.pc = "get_system_logs",
                               !.out = Append(@, AlertsBlock(dash.stats, a))]
    /\ UNCHANGED <<storeVars, collectorVars, ping, cache, renders>>

GetAlertsLog ==
    /\ Watching
    /\ dash.pc = "get_alerts_log"
    /\ IF "alerts_log" \in tables
       THEN /\ dash' = [dash EXCEPT !.alerts_df = get_alerts_log,
                                    !.pc = "get_system_logs",
                                    !.out = Append(@, AlertsBlock(dash.stats,
                                                                  get_alerts_log))]
            /\ cache' = [cache EXCEPT !["get_alerts_log"] =
                                         [present |-> TRUE, value |-> get_alerts_log]]
       ELSE /\ dash' = Caught(dash)
            /\ cache' = cache
    /\ UNCHANGED <<storeVars, collectorVars, ping, renders>>

\* SELECT * FROM system_log [WHERE ping_status = ?] ORDER BY id DESC
get_system_logs(ping_filter) ==
    IF ping_filter \in {"UP", "DOWN"}
    THEN SelectSeq(OrderByIdDesc(system_log), LAMBDA r : r.ping_status = ping_filter)
    ELSE OrderByIdDesc(system_log)

\* display_df: df.head(num_records) with the ping_ms column formatted
DisplayDf(df, num_records) ==
    LET h == Head_n(df, num_records)
    IN [k \in 1..Len(h) |->
          [id |-> h[k].id, timestamp |-> h[k].timestamp, cpu |-> h[k].cpu,
           memory |-> h[k].memory, disk |-> h[k].disk,
           ping_status |-> h[k].ping_status,
           ping_na |-> ~Positive(h[k].ping_ms), ping_ms |-> h[k].ping_ms]]

\* the "System Logs" section for the frame df: the record count line and the
\* table, or the warning after which main() returns
LogsShown(d, df) ==
    IF df # <<>>
    THEN [d EXCEPT !.df = df, !.pc = "charts",
                   !.out = Append(@, [block |-> "logs",
                                      showing |-> Min(d.num_records, Len(df)),
                                      total |-> d.stats.log_count,
                                      rows |-> DisplayDf(df, d.num_records)])]
    ELSE [d EXCEPT !.df = df, !.pc = "done",
                   !.out = Append(@, [block |-> "no_data"])]

GetSystemLogsCached ==
    /\ Watching
    /\ dash.pc = "get_system_logs"
    /\ cache[LogsKey(dash.ping_filter)].present
    /\ dash' = LogsShown(dash, cache[LogsKey(dash.ping_filter)].value)
    /\ UNCHANGED <<storeVars, collectorVars, ping, cache, renders>>

GetSystemLogs ==
    /\ Watching
    /\ dash.pc = "get_system_logs"
    /\ IF "system_log" \in tables
       THEN /\ dash' = LogsShown(dash, get_system_logs(dash.ping_filter))
            /\ cache' = [cache EXCEPT ![LogsKey(dash.ping_filter)] =
                            [present |-> TRUE,
                             value |-> get_system_logs(dash.ping_filter)]]
       ELSE /\ dash' = Caught(dash)
            /\ cache' = cache
    /\ UNCHANGED <<storeVars, collectorVars, ping, renders>>

RECURSIVE SumOf(_, _)
SumOf(s, col) == IF s = <<>> THEN 0 ELSE s[1][col] + SumOf(Tail(s), col)

RECURSIVE MaxOf(_, _)
MaxOf(s, col) ==
    IF Len(s) = 1 THEN s[1][col]
    ELSE LET m == MaxOf(Tail(s), col) IN IF s[1][col] > m THEN s[1][col] ELSE m

\* the "Performance Charts" section for the frame chart_df
ChartsBlock(chart_df) ==
    LET sorted == OrderById(chart_df)
        cols == {"cpu", "memory", "disk"}
    IN [block |-> "charts",
        usage |-> sorted,
        ping |-> SelectSeq(sorted, LAMBDA r : Positive(r.ping_ms)),
        \* mean as <<sum, count>>; nan for an empty frame
        mean |-> [c \in cols |-> <<SumOf(sorted, c), Len(sorted)>>],
        max |-> [c \in cols |-> IF sorted = <<>> THEN 0 ELSE MaxOf(sorted, c)],
        ping_up |-> Len(SelectSeq(sorted, LAMBDA r : r.ping_status = "UP")),
        ping_down |-> Len(SelectSeq(sorted, LAMBDA r : r.ping_status = "DOWN"))]

\* chart_df = get_system_logs(), answered from the cache
ChartsCached ==
    /\ Watching
    /\ dash.pc = "charts"
    /\ cache["get_system_logs()"].present
    /\ dash' = [dash EXCEPT !.pc = "done",
                   !.out = Append(@, ChartsBlock(cache["get_system_logs()"].value))]
    /\ UNCHANGED <<storeVars, collectorVars, ping, cache, renders>>

Charts ==
    /\ Watching
    /\ dash.pc = "charts"
    /\ IF "system_log" \in tables
       THEN /\ dash' = [dash EXCEPT !.pc = "done",
                           !.out = Append(@, ChartsBlock(get_system_logs("All")))]
            /\ cache' = [cache EXCEPT !["get_system_logs()"] =
                            [present |-> TRUE, value |-> get_system_logs("All")]]
       ELSE /\ dash' = Caught(dash)
            /\ cache' = cache
    /\ UNCHANGED <<storeVars, collectorVars, ping, renders>>

----------------------------------------------------------------------------
(* Specifications *)

\* the host readings and ping runs of the collector runs explored: all at
\* the thresholds with the ping failing, CPU and disk above with a ping time,
\* all above with a ping output that holds no time
Samples ==
    {[cpu |-> 80, memory |-> 85, disk |-> 90,
      run |-> [failed |-> TRUE, output |-> <<>>]],
     [cpu |-> 81, memory |-> 85, disk |-> 95,
      run |-> [failed |-> FALSE, output |-> <<"time=", "1", ".", "1", "ms">>]],
     [cpu |-> 99, memory |-> 86, disk |-> 91,
      run |-> [failed |-> FALSE, output |-> <<"1", "ms">>]]}

PriorRow == [timestamp |-> 0, cpu |-> 95, memory |-> 50, disk |-> 50,
             ping_status |-> "UP", ping_ms |-> Float(<<"1">>)]

\* log.db before the collector starts: absent, or left by an earlier run
InitStores ==
    {[tables |-> {}, system_log |-> <<>>, alerts_log |-> <<>>],
     [tables |-> AllTables,
      system_log |-> <<LogRow(<<>>, PriorRow)>>,
      alerts_log |-> <<AlertRow(<<>>, 0, AlertsFor(PriorRow)[1])>>]}

InitCollector ==
    /\ pc = "init_db"
    /\ i = 0
    /\ row = NoRow
    /\ alerts_triggered = <<>>
    /\ now = 0
    /\ sleeps = 0
    /\ stdout = <<>>
    /\ exc = "none"
    /\ ping = IdlePing

InitDash ==
    /\ dash = DashIdle
    /\ cache = EmptyCache
    /\ renders = 0

Init ==
    /\ \E s \in InitStores :
          /\ tables = s.tables
          /\ system_log = s.system_log
          /\ alerts_log = s.alerts_log
    /\ InitCollector
    /\ InitDash

Next ==
    \/ InitDbSystemLog
    \/ InitDbAlertsLog
    \/ GetSystemInfo(Samples)
    \/ InsertLog
    \/ InsertLogFail
    \/ CheckAlerts
    \/ InsertAlert
    \/ InsertAlertFail
    \/ EndTick
    \/ Sleep
    \/ LoopExit
    \/ ShowLastEntries
    \/ ShowAlertsLog
    \/ CountTotalRecords

\* the collector run alone
Spec == Init /\ [][Next]_vars

\* the collector keeps running until it ends: no step of it blocks for ever
LiveSpec == Spec /\ WF_vars(Next)

\* the one reading and ping run of the collector run explored beside the
\* dashboard
DashSamples ==
    {[cpu |-> 81, memory |-> 85, disk |-> 90,
      run |-> [failed |-> TRUE, output |-> <<>>]]}

NextDash ==
    \/ InitDbSystemLog
    \/ InitDbAlertsLog
    \/ GetSystemInfo(DashSamples)
    \/ InsertLog
    \/ CheckAlerts
    \/ InsertAlert
    \/ EndTick
    \/ Sleep
    \/ LoopExit
    \/ ShowLastEntries
    \/ ShowAlertsLog
    \/ CountTotalRecords
    \/ StartRender
    \/ RefreshData
    \/ GetStatisticsCached
    \/ GetStatisticsCountLogs
    \/ GetStatisticsCountAlerts
    \/ GetStatisticsLatest
    \/ GetAlertsLogCached
    \/ GetAlertsLog
    \/ GetSystemLogsCached
    \/ GetSystemLogs
    \/ ChartsCached
    \/ Charts

\* the collector and the dashboard, two processes on the same log.db; the
\* store calls of the collector succeed in these runs
SpecDash == Init /\ [][NextDash]_vars

\* every ping output of at most MaxOutLen symbols
Outputs == UNION {[1..n -> Symbols] : n \in 0..MaxOutLen}

\* the probe alone: one call of ping_host on any subprocess run
PingHost ==
    /\ pc = "ping_host"
    /\ ~ping.done
    /\ ping' = [ping EXCEPT !.done = TRUE, !.result = ping_host(ping.run)]
    /\ pc' = "pinged"
    /\ UNCHANGED <<storeVars, i, row, alerts_triggered, now, sleeps, stdout, exc,
                   dashVars>>

InitPing ==
    /\ tables = {} /\ system_log = <<>> /\ alerts_log = <<>>
    /\ pc = "ping_host"
    /\ i = 0 /\ row = NoRow /\ alerts_triggered = <<>> /\ now = 0 /\ sleeps = 0
    /\ stdout = <<>> /\ exc = "none"
    /\ \E f \in BOOLEAN, o \in Outputs :
          ping = [IdlePing EXCEPT !.run = [failed |-> f, output |-> o]]
    /\ InitDash

NextPing == PingHost

SpecPing == InitPing /\ [][NextPing]_vars

\* the samples check_alerts is applied to: readings around and far above the
\* thresholds
CheckCpu == {79, 80, 81, 100}
CheckMemory == {84, 85, 86, 100}
CheckDisk == {89, 90, 91, 100}

\* check_alerts alone: one call on any sample, which insert_log has stored
InitCheck ==
    /\ tables = AllTables
    /\ \E c \in CheckCpu, m \in CheckMemory, d \in CheckDisk :
          row = [timestamp |-> 1, cpu |-> c, memory |-> m, disk |-> d,
                 ping_status |-> "DOWN", ping_ms |-> NoTime]
    /\ system_log = <<LogRow(<<>>, row)>>
    /\ alerts_log = <<>>
    /\ pc = "check_alerts"
    /\ i = 0 /\ alerts_triggered = <<>> /\ now = 1 /\ sleeps = 0
    /\ stdout = <<>> /\ exc = "none"
    /\ ping = [IdlePing EXCEPT !.done = TRUE, !.result = <<"DOWN", NoTime>>]
    /\ InitDash

NextCheck ==
    \/ CheckAlerts
    \/ InsertAlert
    \/ InsertAlertFail

SpecCheck == InitCheck /\ [][NextCheck]_vars

----------------------------------------------------------------------------
(* Properties *)

Rows(t) == {t[k] : k \in 1..Len(t)}

AlertTypes == {"CPU", "MEMORY", "DISK"}

\* the sample's value of the metric an alert type is about, and whether it
\* exceeds the threshold the program documents for it
MetricOf(s, type) ==
    IF type = "CPU" THEN s.cpu ELSE IF type = "MEMORY" THEN s.memory ELSE s.disk

Exceeds(s, type) ==
    IF type = "CPU" THEN s.cpu > 80
    ELSE IF type = "MEMORY" THEN s.memory > 85
    ELSE s.disk > 90

Limit(type) == IF type = "CPU" THEN 80 ELSE IF type = "MEMORY" THEN 85 ELSE 90

AlertsOf(timestamp, type) ==
    {a \in Rows(alerts_log) : a.timestamp = timestamp /\ a.alert_type = type}

\* check_alerts has returned for the current sample
CheckReturned == pc = "insert_alert" /\ alerts_triggered = <<>> /\ exc = "none"

\* C1: every alert row carries the timestamp of some sample row, in every
\* state of the store, the states between two inserts of a tick included
C1_AlertHasSample ==
    \A a \in Rows(alerts_log) : \E r \in Rows(system_log) : r.timestamp = a.timestamp

\* an alert of the running tick is stored while others are still to be inserted
C1_Witness ==
    /\ pc = "insert_alert"
    /\ alerts_triggered # <<>>
    /\ \E a \in Rows(alerts_log) : a.timestamp = row.timestamp /\ row.timestamp = now

\* C2: when check_alerts has returned, the store holds one alert of a type
\* for the sample exactly if the sample's metric is strictly above its
\* threshold (80, 85, 90), none otherwise, and that alert carries the
\* sample's value, the threshold and the sample's timestamp
C2_AlertIffAbove ==
    CheckReturned =>
        \A type \in AlertTypes :
            /\ Cardinality(AlertsOf(row.timestamp, type))
                  = (IF Exceeds(row, type) THEN 1 ELSE 0)
            /\ \A a \in AlertsOf(row.timestamp, type) :
                  /\ a.value = MetricOf(row, type)
                  /\ a.threshold = Limit(type)
            /\ Len(alerts_log) = Cardinality({t \in AlertTypes : Exceeds(row, t)})

\* a sample with the CPU alone above its threshold, the others equal to theirs
C2_Witness ==
    /\ CheckReturned
    /\ row.cpu = 81 /\ row.memory = 85 /\ row.disk = 90
    /\ Len(alerts_log) = 1
    /\ alerts_log[1].alert_type = "CPU"

Rank(type) == IF type = "CPU" THEN 1 ELSE IF type = "MEMORY" THEN 2 ELSE 3

\* C3: the alerts of one sample are stored in the order CPU, MEMORY, DISK:
\* of two alert rows with the same timestamp, the one with the smaller id has
\* the earlier type, and the alerts still to be inserted come after those
\* stored, in that order too
C3_AlertOrder ==
    /\ \A a, b \in Rows(alerts_log) :
          (a.timestamp = b.timestamp /\ a.id < b.id)
              => Rank(a.alert_type) < Rank(b.alert_type)
    /\ \A a \in Rows(alerts_log) : \A k \in 1..Len(alerts_triggered) :
          a.timestamp = row.timestamp
              => Rank(a.alert_type) < Rank(alerts_triggered[k].alert_type)
    /\ \A j, k \in 1..Len(alerts_triggered) :
          j < k => Rank(alerts_triggered[j].alert_type)
                      < Rank(alerts_triggered[k].alert_type)

\* three alerts stored for a sample whose disk value is the largest and whose
\* CPU value is the smallest
C3_Witness ==
    /\ CheckReturned
    /\ row.cpu = 81 /\ row.memory = 86 /\ row.disk = 100
    /\ Len(alerts_log) = 3
    /\ alerts_log[1].alert_type = "CPU"
    /\ alerts_log[3].alert_type = "DISK"

\* the tick that stored the sample s is over
TickOver(s) ==
    \/ s.timestamp < now
    \/ pc \notin {"insert_log", "check_alerts", "insert_alert", "exit"}
    \/ CheckReturned

\* C4: no deduplication: every sample whose tick is over has exactly one
\* alert row of a type if its metric is above the threshold, whatever alerts
\* earlier ticks raised; so N samples in a row above the threshold leave N
\* alert rows of that type
C4_NoDedup ==
    \A s \in Rows(system_log) : \A type \in AlertTypes :
        TickOver(s) =>
            Cardinality(AlertsOf(s.timestamp, type))
                = (IF Exceeds(s, type) THEN 1 ELSE 0)

\* three consecutive samples of one run above the CPU threshold, three CPU alerts
C4_Witness ==
    /\ pc = "sleep"
    /\ \E t \in 1..now :
          \A d \in 0..2 :
              /\ \E s \in Rows(system_log) : s.timestamp = t + d /\ s.cpu > 80
              /\ Cardinality(AlertsOf(t + d, "CPU")) = 1

\* C6: a store failure is fatal and rolls nothing back: the step in which an
\* insert raises changes no table and prints nothing, and from then on the
\* collector does nothing at all (no sample, no insert, no summary); the
\* summary is never printed in a run that failed
C6_FatalNoRollback ==
    [][/\ (exc = "none" /\ exc' # "none")
            => /\ UNCHANGED <<storeVars, stdout, now, i, sleeps>>
               /\ pc' = "exit"
       /\ exc # "none"
            => UNCHANGED <<storeVars, collectorVars, ping>>
       /\ exc' # "none" => stdout' = <<>>]_vars

\* the second insert_alert of a tick failed: the tick's sample row and its
\* first alert row are in the store
C6_Witness ==
    /\ exc # "none"
    /\ pc = "exit"
    /\ alerts_triggered # <<>>
    /\ \E r \in Rows(system_log) : r.timestamp = now
    /\ \E a \in Rows(alerts_log) : a.timestamp = now

TickBody == {"insert_log", "check_alerts", "insert_alert", "sleep"}

\* C9: a run in which no store call fails ends, after exactly 5 ticks and 4
\* sleeps: one sleep after each tick but the last (sleeps = i up to 4), tick
\* k + 1 is sampled only after tick k is over, and the three summary blocks
\* are printed only after the fifth tick
C9_Terminates ==
    /\ [](/\ sleeps = (IF i < 4 THEN i ELSE 4)
          /\ pc \in TickBody => now = i + 1 /\ i < 5
          /\ stdout # <<>> => i = 5 /\ now = 5 /\ sleeps = 4
          /\ pc = "done" =>
                /\ i = 5 /\ now = 5 /\ sleeps = 4
                /\ Len(stdout) = 3
                /\ Cardinality({r \in Rows(system_log) : r.timestamp > 0}) = 5)
    /\ <>(pc = "done" \/ exc # "none")

C9_Witness ==
    /\ pc = "done"
    /\ exc = "none"
    /\ sleeps = 4
    /\ Len(stdout) = 3

HasMarker(output) ==
    \E k \in 1..Len(output) : Lower(output[k]) \in {"time=", "time<"}

HasDigit(output) == \E k \in 1..Len(output) : output[k] = "1"

Blocks(out) == [k \in 1..Len(out) |-> out[k].block]

\* C7: no script run of the dashboard dies of an exception; at the end of a
\* run on a store without its two tables the page is the error and the hint
\* to run the logger; at the end of a run that read an empty store the page
\* is the status metrics at 0 and N/A, the no-alerts message and the no-data
\* message, and no chart
C7_NeverCrashes ==
    /\ dash.pc # "crashed"
    /\ (dash.pc = "done" /\ tables # AllTables)
          => Blocks(dash.out) = <<"error", "info_run_logger">>
    /\ (dash.pc = "done" /\ tables = AllTables /\ system_log = <<>>
          /\ alerts_log = <<>> /\ dash.out[1].block # "error")
          => /\ Blocks(dash.out) = <<"status", "no_alerts", "no_data">>
             /\ dash.out[1].cpu = 0 /\ dash.out[1].memory = 0 /\ dash.out[1].disk = 0
             /\ dash.out[1].ping_status = "N/A" /\ dash.out[1].ping_na

\* a run on the store before init_db: the first read raised and was caught
C7_Witness ==
    /\ dash.pc = "done"
    /\ tables = {}
    /\ Blocks(dash.out) = <<"error", "info_run_logger">>

\* a run on the store after init_db and before the first insert_log
C7_WitnessEmpty ==
    /\ dash.pc = "done"
    /\ tables = AllTables /\ system_log = <<>>
    /\ Blocks(dash.out) = <<"status", "no_alerts", "no_data">>

\* t2 is t, or t with one row of a larger id appended
AppendOnly(t, t2) ==
    \/ t2 = t
    \/ /\ Len(t2) = Len(t) + 1
       /\ SubSeq(t2, 1, Len(t)) = t
       /\ \A k \in 1..Len(t) : t[k].id < t2[Len(t2)].id

\* insert_log calls that have returned in this run
Appended == IF pc = "insert_log" THEN now - 1 ELSE now

\* C8: no step of the collector or of the dashboard changes or removes a
\* row: a step leaves each table as it is or appends one row of a larger id,
\* and a dashboard step changes no table; the rows this run added to
\* system_log are as many as the insert_log calls that returned, 5 when the
\* run is done
C8_AppendOnly ==
    /\ [][/\ AppendOnly(system_log, system_log')
          /\ AppendOnly(alerts_log, alerts_log')
          /\ tables \subseteq tables'
          /\ dashVars' # dashVars => UNCHANGED storeVars]_vars
    /\ [](/\ Cardinality({r \in Rows(system_log) : r.timestamp > 0}) = Appended
          /\ Cardinality(Rows(system_log)) = Len(system_log)
          /\ Len(system_log) = Len(SelectSeq(system_log, LAMBDA r : r.timestamp = 0))
                                  + Appended
          /\ pc = "done" => Appended = 5)

\* the run is done on a store that was empty: 5 rows, ids 1 to 5
C8_Witness ==
    /\ pc = "done"
    /\ Len(system_log) = 5
    /\ \A k \in 1..5 : system_log[k].id = k
    /\ renders > 0

\* C10 as stated: the record count line never shows more rows than the
\* total beside it, and with the filter at All the status metrics are those
\* of the first row of the table shown
C10_FiguresConsistent ==
    \A k \in 1..Len(dash.out) :
        dash.out[k].block = "logs" =>
            /\ dash.out[k].showing <= dash.out[k].total
            /\ dash.ping_filter = "All" =>
                  /\ dash.out[k].rows[1].cpu = dash.stats.latest_cpu
                  /\ dash.out[k].rows[1].memory = dash.stats.latest_memory
                  /\ dash.out[k].rows[1].disk = dash.stats.latest_disk
                  /\ dash.out[k].rows[1].ping_status = dash.stats.latest_ping_status
                  /\ dash.out[k].rows[1].ping_ms = dash.stats.latest_ping_ms

====
